---- MODULE Spec2Model ----
(***************************************************************************)
(* AFQ-Insight, afqinsight/datasets.py: load_afq_data (long-format nodes   *)
(* table + phenotype table -> feature matrix, targets, groups) and         *)
(* output_beta_to_afq (coefficient vector -> long-format rows appended to  *)
(* the nodes table and written to another directory).                      *)
(*                                                                         *)
(* Each function is a little state machine: one action per block of        *)
(* statements, a program counter, and an exception slot.  SpecLoad runs    *)
(* load_afq_data, SpecBeta runs output_beta_to_afq.                        *)
(***************************************************************************)
EXTENDS Integers, Sequences, FiniteSets, TLC

\* ------------------------------------------------------------------ bounds
MaxSubjects == 2
MaxTracts == 2
MaxNodes == 2
MaxPheno == 2
MaxBeta == 1

\* --------------------------------------------------------------- utilities
Range(s) == {s[i] : i \in 1..Len(s)}

RECURSIVE Distinct(_)
\* the distinct elements of s, in first-seen order
Distinct(s) ==
    IF s = <<>> THEN <<>>
    ELSE LET r == Distinct(SubSeq(s, 1, Len(s) - 1))
             x == s[Len(s)]
         IN IF \E i \in 1..Len(r) : r[i] = x THEN r ELSE Append(r, x)

RECURSIVE ConcatAll(_)
\* the concatenation of a sequence of sequences
ConcatAll(ss) ==
    IF ss = <<>> THEN <<>>
    ELSE ConcatAll(SubSeq(ss, 1, Len(ss) - 1)) \o ss[Len(ss)]

\* Python None / a given optional argument
None == [given |-> FALSE, v |-> <<>>]
Some(x) == [given |-> TRUE, v |-> x]

\* A float cell: a number or NaN
NaN == [nan |-> TRUE, v |-> 0]
Num(x) == [nan |-> FALSE, v |-> x]

\* Byte order of the strings the model uses (str.__lt__)
SortedNames ==
    << "A", "A1", "ARC", "B", "B2", "C", "C3", "CST", "D", "D4", "SLF", "UNC", "Z",
       "age", "fa", "md", "test_class", "xx", "zz" >>
NameRank(s) == CHOOSE i \in 1..Len(SortedNames) : SortedNames[i] = s
SortNames(s) == SortSeq(s, LAMBDA a, b : NameRank(a) < NameRank(b))
SortInts(s) == SortSeq(s, LAMBDA a, b : a < b)

SubjectIDs == << "A", "B", "C", "D" >>
TractIDs == << "ARC", "CST", "SLF", "UNC" >>
\* subjectID + str(sessionID), for the pairs the model's files hold (the
\* i-th subject is recorded in session i)
ConcatSession(subject, session) ==
    CASE subject = "A" /\ session = 1 -> "A1"
      [] subject = "B" /\ session = 2 -> "B2"
      [] subject = "C" /\ session = 3 -> "C3"
      [] subject = "D" /\ session = 4 -> "D4"

\* ------------------------------------------------------------ data frames
\* A data frame: its column names in order and its rows (column -> cell).
DropColumns(df, cols) ==
    LET keep == SelectSeq(df.columns, LAMBDA c : c \notin cols)
    IN [columns |-> keep,
        rows |-> [i \in 1..Len(df.rows) |-> [c \in Range(keep) |-> df.rows[i][c]]]]

SelectColumns(df, cols) ==
    [columns |-> cols,
     rows |-> [i \in 1..Len(df.rows) |-> [c \in Range(cols) |-> df.rows[i][c]]]]

Column(df, c) == [i \in 1..Len(df.rows) |-> df.rows[i][c]]

\* "Unnamed:" in col
IsUnnamed(col) == col \in {"Unnamed: 0"}

\* =========================================================== load_afq_data
\* ---- the state of a call of load_afq_data
\* pc: the block about to run; args: the call's arguments; nodes_csv: the
\* nodes file as read; the rest are the function's locals; exc: the exception
\* the call ended with.
VARIABLES pc, args, nodes_csv, nodes, sessions, X, groups, feature_names,
          group_names, subjects, targets, y, classes, output, exc

loadVars == << pc, args, nodes_csv, nodes, sessions, X, groups, feature_names,
               group_names, subjects, targets, y, classes, output, exc >>

\* ---- the state of a call of output_beta_to_afq
\* bpc: the block about to run; bargs: the call's arguments; fs: the files of
\* each directory; io: the file reads and writes done so far, in order;
\* df_nodes, df_beta, df_subjects: the function's locals; bexc: the exception
\* the call ended with.
VARIABLES bpc, bargs, fs, io, df_nodes, df_beta, df_subjects, bexc

betaVars == << bpc, bargs, fs, io, df_nodes, df_beta, df_subjects, bexc >>

vars == << loadVars, betaVars >>

EmptyFrame == [columns |-> <<>>, rows |-> <<>>]
EmptyDict == [c \in {} |-> <<>>]
Undefined == [kind |-> "undefined"]

\* ---- the files load_afq_data reads
\* A nodes csv: n subjects x T tracts x K nodes numbered from `first`, one row
\* each, listed subject by subject, tract by tract, node by node; `flat` makes
\* every metric value of a tract the same.
FullNodesFile(n, T, first, K, hasSession, hasUnnamed, flat) ==
    LET cols == (IF hasUnnamed THEN << "Unnamed: 0" >> ELSE <<>>)
                \o << "subjectID" >>
                \o (IF hasSession THEN << "sessionID" >> ELSE <<>>)
                \o << "tractID", "nodeID", "fa", "md" >>
        Row(i) ==
            LET s == ((i - 1) \div (T * K)) + 1
                t == (((i - 1) \div K) % T) + 1
                k == first + ((i - 1) % K)
            IN [c \in Range(cols) |->
                   CASE c = "subjectID" -> SubjectIDs[s]
                     [] c = "sessionID" -> s
                     [] c = "tractID" -> TractIDs[t]
                     [] c = "nodeID" -> k
                     [] c = "fa" -> Num(IF flat THEN 5 ELSE 10 * s + k)
                     [] c = "md" -> Num(IF flat THEN 7 ELSE 100 * t + 3 * s * s + k)
                     [] OTHER -> i - 1]
    IN [columns |-> cols, rows |-> [i \in 1..(n * T * K) |-> Row(i)]]

\* The same file, where `hole` leaves out the row of the last subject at the
\* first node of the first tract (a node sample that was not recorded); the
\* incidental index column numbers the rows that are there.
NodesFile(n, T, first, K, hasSession, hasUnnamed, flat, hole) ==
    LET full == FullNodesFile(n, T, first, K, hasSession, hasUnnamed, flat)
        kept == SelectSeq(full.rows, LAMBDA r :
                    ~(hole /\ r["subjectID"] = SubjectIDs[n]
                           /\ r["tractID"] = TractIDs[1]
                           /\ r["nodeID"] = first))
    IN [columns |-> full.columns,
        rows |-> [i \in 1..Len(kept) |->
                    IF hasUnnamed THEN [kept[i] EXCEPT !["Unnamed: 0"] = i - 1]
                    ELSE kept[i]]]

NodesFiles ==
    { NodesFile(n, T, first, K, hs, hu, FALSE, FALSE) :
        n \in 1..MaxSubjects, T \in 1..MaxTracts, first \in 0..1,
        K \in 1..MaxNodes, hs \in BOOLEAN, hu \in BOOLEAN }
    \cup
    { NodesFile(n, T, first, K, hs, hu, FALSE, TRUE) :
        n \in 2..MaxSubjects, T \in 1..MaxTracts, first \in 0..1,
        K \in 1..MaxNodes, hs \in BOOLEAN, hu \in BOOLEAN }

\* A subjects csv read with index_col="subjectID": row i is keyed keys[i].
PhenoKeys == Range(SubSeq(SubjectIDs, 1, MaxSubjects)) \cup {"Z"}
PhenoFile(keys) ==
    [columns |-> << "Unnamed: 0", "age", "test_class" >>,
     index |-> keys,
     rows |-> [i \in 1..Len(keys) |->
                 [c \in {"Unnamed: 0", "age", "test_class"} |->
                    CASE c = "Unnamed: 0" -> Num(i - 1)
                      [] c = "age" -> Num(20 + i)
                      [] OTHER -> Num(10 * (2 - (i % 2)))]]]
PhenoFiles ==
    { PhenoFile(keys) : keys \in UNION { [1..m -> PhenoKeys] : m \in 0..MaxPheno } }

\* ---- the arguments of a call
Opt(S) == {None} \cup { Some(x) : x \in S }
LoadArgs ==
    [ dwi_metrics : Opt({ << "fa" >>, << "xx" >> }),
      target_cols : Opt({ << "age" >>, << "test_class" >>,
                          << "age", "test_class" >>, << "zz" >> }),
      label_encode_cols : Opt({ << "test_class" >> }),
      unsupervised : BOOLEAN,
      concat_subject_session : BOOLEAN,
      return_sessions : BOOLEAN ]

\* ---- AFQDataFrameMapper.fit_transform and its fitted attributes
IndexColumns == {"subjectID", "tractID", "nodeID"}
MetricColumns(df) ==
    SortNames(SelectSeq(df.columns, LAMBDA c : c \notin IndexColumns))

\* mapper.subjects_: the pivot's row index
MapperSubjects(df) == SortNames(Distinct(Column(df, "subjectID")))

\* The largest of a sequence of node IDs (-1 for none)
MaxOf(s) == IF s = <<>> THEN -1 ELSE CHOOSE m \in Range(s) : \A x \in Range(s) : x <= m

\* mapper.feature_names_: the pivot's columns, (tract, metric, node) in
\* canonical order: the product of the tracts present, the metric columns and
\* the full node range 0..N-1, N - 1 being the largest node ID present,
\* whichever combinations the table holds.
MapperFeatureNames(df) ==
    LET tracts == SortNames(Distinct(Column(df, "tractID")))
        metrics == MetricColumns(df)
        nm == Len(metrics)
        nn == MaxOf(Column(df, "nodeID")) + 1
    IN [j \in 1..(Len(tracts) * nm * nn) |->
          << tracts[((j - 1) \div (nm * nn)) + 1],
             metrics[(((j - 1) \div nn) % nm) + 1],
             (j - 1) % nn >>]

\* mapper.groups_: for each (tract, metric), the 0-based column indices
MapperGroups(fn) ==
    LET pairs == Distinct([j \in 1..Len(fn) |-> << fn[j][1], fn[j][2] >>])
        Idx(p) == { j \in 1..Len(fn) : << fn[j][1], fn[j][2] >> = p }
    IN [g \in 1..Len(pairs) |->
          SortInts(Distinct(ConcatAll(
              [j \in 1..Len(fn) |-> IF j \in Idx(pairs[g]) THEN << j - 1 >> ELSE <<>>])))]

\* The pivot itself: cell (i, j) holds the observations of subject i at
\* column key j, none where the combination is missing (the statistics that
\* aggregate and fill are external).
MapperX(df, subj, fn) ==
    [i \in 1..Len(subj) |->
       [j \in 1..Len(fn) |->
          LET hit == SelectSeq(df.rows, LAMBDA r :
                        /\ r["subjectID"] = subj[i]
                        /\ r["tractID"] = fn[j][1]
                        /\ r["nodeID"] = fn[j][3])
          IN [h \in 1..Len(hit) |-> hit[h][fn[j][2]]]]]

\* Imputation fills a missing cell from the values of its own column; a column
\* with no value for any subject cannot be filled.
Unimputable(Xm) ==
    \E j \in 1..(IF Xm = <<>> THEN 0 ELSE Len(Xm[1])) :
        \A i \in 1..Len(Xm) : Xm[i][j] = <<>>

\* The comprehension of group_names selecting on node 1, as if nodes were
\* numbered from 1
GroupNamesFromOne(fn) ==
    LET at1 == SelectSeq(fn, LAMBDA tup : tup[3] = 1)
    IN [g \in 1..Len(at1) |-> << at1[g][1], at1[g][2] >>]

\* group_names = [tup[0:2] for tup in feature_names if tup[2] == 0]
GroupNames(fn) ==
    LET at0 == SelectSeq(fn, LAMBDA tup : tup[3] = 0)
    IN [g \in 1..Len(at0) |-> << at0[g][1], at0[g][2] >>]

\* ---- pd.DataFrame(index=subjects).merge(targets, how="left", on the index)
LeftMerge(subj, tg) ==
    LET Hits(s) == SelectSeq([i \in 1..Len(tg.index) |-> i],
                             LAMBDA i : tg.index[i] = s)
        Blank == [c \in Range(tg.columns) |-> NaN]
        Part(s) ==
            IF Hits(s) = <<>> THEN << [key |-> s, row |-> Blank] >>
            ELSE [h \in 1..Len(Hits(s)) |-> [key |-> s, row |-> tg.rows[Hits(s)[h]]]]
        all == ConcatAll([i \in 1..Len(subj) |-> Part(subj[i])])
    IN [columns |-> tg.columns,
        index |-> [i \in 1..Len(all) |-> all[i].key],
        rows |-> [i \in 1..Len(all) |-> all[i].row]]

\* ---- sklearn LabelEncoder
CellLess(a, b) == IF a.nan THEN FALSE ELSE IF b.nan THEN TRUE ELSE a.v < b.v
\* le.classes_ after le.fit(values): the sorted distinct values
LabelClasses(values) == SortSeq(Distinct(values), CellLess)
\* le.fit_transform(values): each value's position in classes_
LabelCodes(values) ==
    LET cl == LabelClasses(values)
    IN [i \in 1..Len(values) |->
          Num((CHOOSE c \in 1..Len(cl) : cl[c] = values[i]) - 1)]

RECURSIVE EncodeLoop(_, _, _)
\* for col in label_encode_cols: y[col] = codes; classes[col] = le.classes_
EncodeLoop(yf, cls, cols) ==
    IF cols = <<>> THEN [y |-> yf, classes |-> cls]
    ELSE LET col == Head(cols)
             vals == [i \in 1..Len(yf.rows) |-> yf.rows[i][col]]
             codes == LabelCodes(vals)
             yf2 == [yf EXCEPT !.rows =
                        [i \in 1..Len(yf.rows) |-> [yf.rows[i] EXCEPT ![col] = codes[i]]]]
             cls2 == [c \in DOMAIN cls \cup {col} |->
                        IF c = col THEN LabelClasses(vals) ELSE cls[c]]
         IN EncodeLoop(yf2, cls2, Tail(cols))

\* ---- np.squeeze(y.to_numpy())
ToNumpy(yf) ==
    [kind |-> "array",
     shape |-> << Len(yf.rows), Len(yf.columns) >>,
     data |-> ConcatAll([i \in 1..Len(yf.rows) |->
                           [c \in 1..Len(yf.columns) |-> yf.rows[i][yf.columns[c]]]])]
Squeeze(a) == [a EXCEPT !.shape = SelectSeq(a.shape, LAMBDA d : d # 1)]

\* ---- the body of load_afq_data, block by block
Raise(e) == pc' = "raised" /\ exc' = e

\* nodes = pd.read_csv(fn_nodes); drop "Unnamed:" columns; keep the sessionID
\* column aside; optionally concatenate it to subjectID; drop it
ReadNodes ==
    /\ pc = "start"
    /\ \E raw \in NodesFiles :
         LET df0 == DropColumns(raw, { c \in Range(raw.columns) : IsUnnamed(c) })
             hasS == "sessionID" \in Range(df0.columns)
             cat == [df0 EXCEPT !.rows =
                       [i \in 1..Len(df0.rows) |->
                          [df0.rows[i] EXCEPT !["subjectID"] =
                              ConcatSession(df0.rows[i]["subjectID"],
                                            df0.rows[i]["sessionID"])]]]
         IN /\ nodes_csv' = raw
            /\ sessions' = IF hasS THEN Some(Column(df0, "sessionID")) ELSE None
            /\ IF args.concat_subject_session /\ ~hasS
               THEN /\ Raise("KeyError")
                    /\ nodes' = df0
               ELSE /\ pc' = "select_metrics"
                    /\ nodes' = DropColumns(
                                   IF args.concat_subject_session THEN cat ELSE df0,
                                   {"sessionID"})
                    /\ UNCHANGED exc
    /\ UNCHANGED << args, X, groups, feature_names, group_names, subjects,
                    targets, y, classes, output >>
    /\ UNCHANGED betaVars

\* if dwi_metrics is not None: nodes = nodes[[tractID, nodeID, subjectID] + dwi_metrics]
SelectMetrics ==
    /\ pc = "select_metrics"
    /\ IF ~args.dwi_metrics.given
       THEN pc' = "fit" /\ UNCHANGED << nodes, exc >>
       ELSE IF Range(args.dwi_metrics.v) \subseteq Range(nodes.columns)
            THEN /\ pc' = "fit"
                 /\ nodes' = SelectColumns(nodes,
                                << "tractID", "nodeID", "subjectID" >> \o args.dwi_metrics.v)
                 /\ UNCHANGED exc
            ELSE Raise("KeyError") /\ UNCHANGED nodes
    /\ UNCHANGED << args, nodes_csv, sessions, X, groups, feature_names, group_names,
                    subjects, targets, y, classes, output >>
    /\ UNCHANGED betaVars

\* X = mapper.fit_transform(nodes); groups, feature_names, group_names, subjects
FitTransform ==
    /\ pc = "fit"
    /\ LET subj == MapperSubjects(nodes)
           fn == MapperFeatureNames(nodes)
           Xm == MapperX(nodes, subj, fn)
       IN IF Unimputable(Xm)
          \* the mapper's data-sufficiency error: nothing is assigned
          THEN /\ Raise("DataSufficiencyError")
               /\ UNCHANGED << X, groups, feature_names, group_names, subjects >>
          ELSE /\ X' = Xm
               /\ groups' = MapperGroups(fn)
               /\ feature_names' = fn
               /\ group_names' = GroupNames(fn)
               /\ subjects' = subj
               /\ pc' = IF args.unsupervised THEN "return_unsupervised" ELSE "read_targets"
               /\ UNCHANGED exc
    /\ UNCHANGED << args, nodes_csv, nodes, sessions, targets, y, classes, output >>
    /\ UNCHANGED betaVars

\* if unsupervised: output = X, groups, feature_names, group_names, subjects[, sessions]
ReturnUnsupervised ==
    /\ pc = "return_unsupervised"
    /\ output' = << "X", "groups", "feature_names", "group_names", "subjects" >>
                 \o (IF args.return_sessions THEN << "sessions" >> ELSE <<>>)
    /\ pc' = "returned"
    /\ UNCHANGED << args, nodes_csv, nodes, sessions, X, groups, feature_names, group_names,
                    subjects, targets, y, classes, exc >>
    /\ UNCHANGED betaVars

\* targets = pd.read_csv(fn_subjects, index_col=index_col); drop "Unnamed:" columns
ReadTargets ==
    /\ pc = "read_targets"
    /\ \E raw \in PhenoFiles :
         LET df == DropColumns(raw, { c \in Range(raw.columns) : IsUnnamed(c) })
         IN targets' = [columns |-> df.columns, index |-> raw.index, rows |-> df.rows]
    /\ pc' = "merge"
    /\ UNCHANGED << args, nodes_csv, nodes, sessions, X, groups, feature_names, group_names,
                    subjects, y, classes, output, exc >>
    /\ UNCHANGED betaVars

\* targets = pd.DataFrame(index=subjects).merge(targets, how="left", ...)
MergeTargets ==
    /\ pc = "merge"
    /\ targets' = LeftMerge(subjects, targets)
    /\ pc' = "select_targets"
    /\ UNCHANGED << args, nodes_csv, nodes, sessions, X, groups, feature_names, group_names,
                    subjects, y, classes, output, exc >>
    /\ UNCHANGED betaVars

\* if target_cols is not None: y = targets.loc[:, target_cols]
SelectTargets ==
    /\ pc = "select_targets"
    /\ IF ~args.target_cols.given
       THEN pc' = "label_encode" /\ UNCHANGED << y, exc >>
       ELSE IF Range(args.target_cols.v) \subseteq Range(targets.columns)
            THEN /\ pc' = "label_encode"
                 /\ y' = [kind |-> "frame",
                          columns |-> args.target_cols.v,
                          index |-> targets.index,
                          rows |-> [i \in 1..Len(targets.rows) |->
                                      [c \in Range(args.target_cols.v) |-> targets.rows[i][c]]]]
                 /\ UNCHANGED exc
            ELSE Raise("KeyError") /\ UNCHANGED y
    /\ UNCHANGED << args, nodes_csv, nodes, sessions, X, groups, feature_names, group_names,
                    subjects, targets, classes, output >>
    /\ UNCHANGED betaVars

\* classes = {}; if label_encode_cols is not None: check the subset, encode
LabelEncode ==
    /\ pc = "label_encode"
    /\ IF ~args.label_encode_cols.given
       THEN pc' = "squeeze" /\ classes' = EmptyDict /\ UNCHANGED << y, exc >>
       ELSE IF ~args.target_cols.given
            \* set(target_cols) with target_cols None
            THEN Raise("TypeError") /\ classes' = EmptyDict /\ UNCHANGED y
            ELSE IF ~(Range(args.label_encode_cols.v) \subseteq Range(args.target_cols.v))
                 THEN Raise("ValueError") /\ classes' = EmptyDict /\ UNCHANGED y
                 ELSE LET r == EncodeLoop(y, EmptyDict, args.label_encode_cols.v)
                      IN /\ y' = r.y
                         /\ classes' = r.classes
                         /\ pc' = "squeeze"
                         /\ UNCHANGED exc
    /\ UNCHANGED << args, nodes_csv, nodes, sessions, X, groups, feature_names, group_names,
                    subjects, targets, output >>
    /\ UNCHANGED betaVars

\* y = np.squeeze(y.to_numpy())
SqueezeTargets ==
    /\ pc = "squeeze"
    /\ IF y.kind = "undefined"
       THEN Raise("UnboundLocalError") /\ UNCHANGED y
       ELSE pc' = "return" /\ y' = Squeeze(ToNumpy(y)) /\ UNCHANGED exc
    /\ UNCHANGED << args, nodes_csv, nodes, sessions, X, groups, feature_names, group_names,
                    subjects, targets, classes, output >>
    /\ UNCHANGED betaVars

\* output = X, y, groups, feature_names, group_names, subjects[, sessions], classes
ReturnSupervised ==
    /\ pc = "return"
    /\ output' = << "X", "y", "groups", "feature_names", "group_names", "subjects" >>
                 \o (IF args.return_sessions THEN << "sessions" >> ELSE <<>>)
                 \o << "classes" >>
    /\ pc' = "returned"
    /\ UNCHANGED << args, nodes_csv, nodes, sessions, X, groups, feature_names, group_names,
                    subjects, targets, y, classes, exc >>
    /\ UNCHANGED betaVars

\* ====================================================== output_beta_to_afq

Metrics == << "fa", "md" >>
FileNames == {"nodes.csv", "subjects.csv", "streamlines.json", "params.json"}
Absent == [exists |-> FALSE, body |-> <<>>]
File(body) == [exists |-> TRUE, body |-> body]
EmptyDir == [f \in FileNames |-> Absent]

\* op.abspath(path): the normalised absolute path, no file system access
AbsPath(path) == IF path = "./data" THEN "data" ELSE path

\* The directory an absolute path names: "link" is a symbolic link to the
\* directory "data", "missing" names nothing.
Resolve(path) ==
    CASE path \in {"data", "link"} -> "data"
      [] path = "out" -> "out"
      [] OTHER -> "none"

\* a guard that compares the two absolute paths instead of the directories
SameFileByPath(a, b) == a = b

\* op.samefile(a, b): os.stat of both, then the same device and inode
SameFile(a, b) == Resolve(a) = Resolve(b)

\* workdir_in and workdir_out after lines 236 and 240
WorkdirIn == AbsPath(bargs.workdir_in)
WorkdirOut == AbsPath(bargs.workdir_out)

\* A subjects csv in AFQ layout: an unnamed index column, subjectID, age
SubjectsFile(n) ==
    [columns |-> << "Unnamed: 0", "subjectID", "age" >>,
     rows |-> [i \in 1..n |->
                 [c \in {"Unnamed: 0", "subjectID", "age"} |->
                    CASE c = "Unnamed: 0" -> i - 1
                      [] c = "subjectID" -> SubjectIDs[i]
                      [] OTHER -> 20 + i]]]

\* The column keys of T tracts x the first M metrics x K nodes, in the order
\* load_afq_data returns them (feature_names)
ColumnKeys(T, M, K) ==
    [j \in 1..(T * M * K) |->
       << TractIDs[((j - 1) \div (M * K)) + 1],
          Metrics[(((j - 1) \div K) % M) + 1],
          (j - 1) % K >>]

\* A coefficient vector: the same value everywhere, or a different value
\* at every position
BetaHat(len, ramp, c) == [j \in 1..len |-> IF ramp THEN c + 2 * j ELSE c]

\* ---- df_beta: lines 253-260
PairLess(p, q) ==
    \/ NameRank(p[1]) < NameRank(q[1])
    \/ p[1] = q[1] /\ p[2] < q[2]

\* a reshape that reads beta_hat as if it were laid out (tract, node, metric)
UnstackNodeMajor(columns, beta_hat) ==
    LET pairs == SortSeq(Distinct([j \in 1..Len(columns) |->
                                     << columns[j][1], columns[j][3] >>]), PairLess)
        ms == SortNames(Distinct([j \in 1..Len(columns) |-> columns[j][2]]))
        cols == << "tractID", "nodeID" >> \o ms
        Pos(c) == CHOOSE k \in 1..Len(ms) : ms[k] = c
    IN [columns |-> cols,
        rows |-> [i \in 1..Len(pairs) |->
                    [c \in Range(cols) |->
                       CASE c = "tractID" -> pairs[i][1]
                         [] c = "nodeID" -> pairs[i][2]
                         [] OTHER -> Num(beta_hat[(i - 1) * Len(ms) + Pos(c)])]]]

\* columns is the MultiIndex (tractID, metric, nodeID) of the feature matrix.
\* DataFrame(columns=columns); .loc["value"] = beta_hat; transpose();
\* unstack(level="metric"); columns renamed to the metric; reset_index():
\* one row per (tractID, nodeID), one column per metric
Unstack(columns, beta_hat) ==
    LET pairs == SortSeq(Distinct([j \in 1..Len(columns) |->
                                     << columns[j][1], columns[j][3] >>]), PairLess)
        ms == SortNames(Distinct([j \in 1..Len(columns) |-> columns[j][2]]))
        At(p, m) == { j \in 1..Len(columns) : columns[j] = << p[1], m, p[2] >> }
        cols == << "tractID", "nodeID" >> \o ms
    IN [columns |-> cols,
        rows |-> [i \in 1..Len(pairs) |->
                    [c \in Range(cols) |->
                       CASE c = "tractID" -> pairs[i][1]
                         [] c = "nodeID" -> pairs[i][2]
                         [] OTHER -> IF At(pairs[i], c) = {} THEN NaN
                                     ELSE Num(beta_hat[CHOOSE j \in At(pairs[i], c) : TRUE])]]]

\* df_beta["subjectID"] = "beta_hat"
WithSubject(df, name) ==
    [columns |-> Append(df.columns, "subjectID"),
     rows |-> [i \in 1..Len(df.rows) |->
                 [c \in Range(df.columns) \cup {"subjectID"} |->
                    IF c = "subjectID" THEN name ELSE df.rows[i][c]]]]

\* ---- the rescaling: lines 262-297
RECURSIVE Gcd(_, _)
Gcd(a, b) == IF b = 0 THEN a ELSE Gcd(b, a % b)
Abs(a) == IF a < 0 THEN -a ELSE a
\* the fraction n/d in lowest terms, d > 0
Frac(n, d) ==
    LET g == Gcd(Abs(n), Abs(d))
        sg == IF d < 0 THEN -1 ELSE 1
    IN << (sg * n) \div g, (sg * d) \div g >>

RECURSIVE SumSeq(_)
SumSeq(s) == IF s = <<>> THEN 0 ELSE s[1] + SumSeq(Tail(s))

\* the non-NaN numbers of a column slice (mean and std skip NaN)
Finite(cells) ==
    LET ok == SelectSeq(cells, LAMBDA x : ~x.nan)
    IN [i \in 1..Len(ok) |-> ok[i].v]

\* Series.mean(): NaN for an empty slice
Mean(cells) ==
    LET v == Finite(cells)
    IN IF Len(v) = 0 THEN [nan |-> TRUE, q |-> << 0, 1 >>]
       ELSE [nan |-> FALSE, q |-> Frac(SumSeq(v), Len(v))]

\* Series.std() squared (ddof = 1): NaN for fewer than two values
Variance(cells) ==
    LET v == Finite(cells)
        n == Len(v)
        s1 == SumSeq(v)
        s2 == SumSeq([i \in 1..n |-> v[i] * v[i]])
    IN IF n < 2 THEN [nan |-> TRUE, q |-> << 0, 1 >>]
       ELSE [nan |-> FALSE, q |-> Frac(n * s2 - s1 * s1, n * (n - 1))]

\* f_std.divide(b_std).replace([np.inf, -np.inf], 1), squared: x/0 is inf for
\* x > 0 and NaN for x = 0; only inf is replaced
ScaleFactorSq(f_var, b_var) ==
    IF f_var.nan \/ b_var.nan THEN [nan |-> TRUE, q |-> << 0, 1 >>]
    ELSE IF b_var.q[1] = 0
         THEN IF f_var.q[1] = 0 THEN [nan |-> TRUE, q |-> << 0, 1 >>]
              ELSE [nan |-> FALSE, q |-> << 1, 1 >>]
         ELSE [nan |-> FALSE,
               q |-> Frac(f_var.q[1] * b_var.q[2], f_var.q[2] * b_var.q[1])]

\* f_mean + (x - b_mean) * factor: the value mean + dev * sqrt(r2), kept exact
Rescaled(x, f_mean, b_mean, factor_sq) ==
    IF x.nan \/ f_mean.nan \/ b_mean.nan \/ factor_sq.nan
    THEN [nan |-> TRUE, mean |-> << 0, 1 >>, dev |-> << 0, 1 >>, r2 |-> << 0, 1 >>]
    ELSE [nan |-> FALSE,
          mean |-> f_mean.q,
          dev |-> Frac(x.v * b_mean.q[2] - b_mean.q[1], b_mean.q[2]),
          r2 |-> factor_sq.q]

Slice(df, tract, m) ==
    LET rs == SelectSeq(df.rows, LAMBDA r : r["tractID"] = tract)
    IN [i \in 1..Len(rs) |-> rs[i][m]]

\* for tract in df_nodes["tractID"].unique(): rescale every metric column of
\* the tract's rows of df_beta
ScaleBeta(nodesdf, betadf) ==
    LET tracts == Range(Column(nodesdf, "tractID"))
        ms == { c \in Range(betadf.columns) : c \notin IndexColumns }
    IN [betadf EXCEPT !.rows =
          [i \in 1..Len(betadf.rows) |->
             LET r == betadf.rows[i]
                 t == r["tractID"]
             IN IF t \notin tracts THEN r
                ELSE [c \in DOMAIN r |->
                        IF c \notin ms THEN r[c]
                        ELSE Rescaled(r[c],
                                      Mean(Slice(nodesdf, t, c)),
                                      Mean(Slice(betadf, t, c)),
                                      ScaleFactorSq(Variance(Slice(nodesdf, t, c)),
                                                    Variance(Slice(betadf, t, c))))]]]

\* ---- the calls of output_beta_to_afq the model makes
\* The input directory "data" holds a nodes csv of n subjects x T tracts x
\* K nodes with the first M metrics, a subjects csv and the two sidecars,
\* less the file named `missing`; the output directory "out" is empty.
\* columns holds the keys of T tracts x the first CM metrics x K nodes, and
\* beta_hat one coefficient per key, or one too many.
BetaNodesFile(n, T, K, M, hasSession, flat) ==
    LET full == FullNodesFile(n, T, 0, K, hasSession, FALSE, flat)
    IN DropColumns(full, Range(Metrics) \ Range(SubSeq(Metrics, 1, M)))

InputDir(n, T, K, M, hasSession, flat, missing) ==
    [f \in FileNames |->
       IF f = missing THEN Absent
       ELSE CASE f = "nodes.csv" -> File(BetaNodesFile(n, T, K, M, hasSession, flat))
              [] f = "subjects.csv" -> File(SubjectsFile(n))
              [] f = "streamlines.json" -> File(<< "streamlines" >>)
              [] OTHER -> File(<< "params" >>)]

OutPaths == {"data", "./data", "link", "out", "missing"}

BRaise(e) == bpc' = "raised" /\ bexc' = e
Read(dir, f) == io' = Append(io, [op |-> "read", dir |-> dir, file |-> f])
Write(dir, f, body) ==
    /\ io' = Append(io, [op |-> "write", dir |-> dir, file |-> f])
    /\ fs' = [fs EXCEPT ![dir][f] = File(body)]

\* lines 236-249: abspath, join, and the same-directory guard
CheckDirs ==
    /\ bpc = "start"
    /\ IF Resolve(WorkdirIn) = "none" \/ Resolve(WorkdirOut) = "none"
       THEN BRaise("FileNotFoundError")
       ELSE IF SameFile(WorkdirIn, WorkdirOut)
            THEN BRaise("ValueError")
            ELSE bpc' = "read_nodes" /\ UNCHANGED bexc
    /\ UNCHANGED << bargs, fs, io, df_nodes, df_beta, df_subjects >>
    /\ UNCHANGED loadVars

\* line 251: df_nodes = pd.read_csv(fn_nodes_in)
BetaReadNodes ==
    /\ bpc = "read_nodes"
    /\ LET f == fs[Resolve(WorkdirIn)]["nodes.csv"]
       IN IF f.exists
          THEN /\ df_nodes' = f.body
               /\ Read(Resolve(WorkdirIn), "nodes.csv")
               /\ bpc' = "build_beta"
               /\ UNCHANGED bexc
          ELSE BRaise("FileNotFoundError") /\ UNCHANGED << df_nodes, io >>
    /\ UNCHANGED << bargs, fs, df_beta, df_subjects >>
    /\ UNCHANGED loadVars

\* lines 253-260: reshape beta_hat; df_beta = df_beta[df_nodes.columns]
BuildBeta ==
    /\ bpc = "build_beta"
    /\ LET b == WithSubject(Unstack(bargs.columns, bargs.beta_hat), "beta_hat")
       IN IF Len(bargs.beta_hat) # Len(bargs.columns)
          \* df_beta.loc["value"] = beta_hat: a row of the wrong length
          THEN BRaise("ValueError") /\ UNCHANGED df_beta
          ELSE IF Range(df_nodes.columns) \subseteq Range(b.columns)
               THEN /\ df_beta' = SelectColumns(b, df_nodes.columns)
                    /\ bpc' = IF bargs.scale_beta THEN "scale" ELSE "write_nodes"
                    /\ UNCHANGED bexc
               ELSE BRaise("KeyError") /\ df_beta' = b
    /\ UNCHANGED << bargs, fs, io, df_nodes, df_subjects >>
    /\ UNCHANGED loadVars

\* lines 262-297: if scale_beta
Scale ==
    /\ bpc = "scale"
    /\ df_beta' = ScaleBeta(df_nodes, df_beta)
    /\ bpc' = "write_nodes"
    /\ UNCHANGED << bargs, fs, io, df_nodes, df_subjects, bexc >>
    /\ UNCHANGED loadVars

\* lines 299-300: df_nodes = pd.concat([df_nodes, df_beta]); to_csv(fn_nodes_out)
WriteNodes ==
    /\ bpc = "write_nodes"
    /\ LET all == [columns |-> df_nodes.columns, rows |-> df_nodes.rows \o df_beta.rows]
       IN /\ df_nodes' = all
          /\ Write(Resolve(WorkdirOut), "nodes.csv", all)
    /\ bpc' = "write_subjects"
    /\ UNCHANGED << bargs, df_beta, df_subjects, bexc >>
    /\ UNCHANGED loadVars

\* lines 302-306: read the subjects csv (first column as index), append the
\* row of the subject "beta_hat" under the label len(df_subjects), write
WriteSubjects ==
    /\ bpc = "write_subjects"
    /\ LET f == fs[Resolve(WorkdirIn)]["subjects.csv"]
           row == [c \in Range(f.body.columns) |->
                     CASE c = "Unnamed: 0" -> Len(f.body.rows)
                       [] c = "subjectID" -> "beta_hat"
                       [] OTHER -> ""]
           all == [f.body EXCEPT !.rows = Append(f.body.rows, row)]
       IN IF f.exists
          THEN /\ df_subjects' = all
               /\ io' = io \o << [op |-> "read", dir |-> Resolve(WorkdirIn),
                                  file |-> "subjects.csv"],
                                 [op |-> "write", dir |-> Resolve(WorkdirOut),
                                  file |-> "subjects.csv"] >>
               /\ fs' = [fs EXCEPT ![Resolve(WorkdirOut)]["subjects.csv"] = File(all)]
               /\ bpc' = "copy_streamlines"
               /\ UNCHANGED bexc
          ELSE BRaise("FileNotFoundError") /\ UNCHANGED << df_subjects, io, fs >>
    /\ UNCHANGED << bargs, df_nodes, df_beta >>
    /\ UNCHANGED loadVars

\* copyfile(src, dst) of one sidecar
CopyFile(name, next) ==
    LET f == fs[Resolve(WorkdirIn)][name]
    IN IF f.exists
       THEN /\ io' = io \o << [op |-> "read", dir |-> Resolve(WorkdirIn),
                               file |-> name],
                              [op |-> "write", dir |-> Resolve(WorkdirOut),
                               file |-> name] >>
            /\ fs' = [fs EXCEPT ![Resolve(WorkdirOut)][name] = f]
            /\ bpc' = next
            /\ UNCHANGED bexc
       ELSE BRaise("FileNotFoundError") /\ UNCHANGED << io, fs >>

\* lines 308-310
CopyStreamlines ==
    /\ bpc = "copy_streamlines"
    /\ CopyFile("streamlines.json", "copy_params")
    /\ UNCHANGED << bargs, df_nodes, df_beta, df_subjects >>
    /\ UNCHANGED loadVars

\* lines 312-318: copy params.json and return the two output paths
CopyParams ==
    /\ bpc = "copy_params"
    /\ CopyFile("params.json", "returned")
    /\ UNCHANGED << bargs, df_nodes, df_beta, df_subjects >>
    /\ UNCHANGED loadVars

InitLoad ==
    /\ pc = "start"
    /\ args \in LoadArgs
    /\ nodes_csv = EmptyFrame
    /\ nodes = EmptyFrame
    /\ sessions = None
    /\ X = <<>>
    /\ groups = <<>>
    /\ feature_names = <<>>
    /\ group_names = <<>>
    /\ subjects = <<>>
    /\ targets = EmptyFrame
    /\ y = Undefined
    /\ classes = EmptyDict
    /\ output = <<>>
    /\ exc = "none"
    \* output_beta_to_afq is not called
    /\ bpc = "idle"
    /\ bargs = None
    /\ fs = [data |-> EmptyDir, out |-> EmptyDir]
    /\ io = <<>>
    /\ df_nodes = EmptyFrame
    /\ df_beta = EmptyFrame
    /\ df_subjects = EmptyFrame
    /\ bexc = "none"

NextLoad ==
    \/ ReadNodes
    \/ SelectMetrics
    \/ FitTransform
    \/ ReturnUnsupervised
    \/ ReadTargets
    \/ MergeTargets
    \/ SelectTargets
    \/ LabelEncode
    \/ SqueezeTargets
    \/ ReturnSupervised

InitBeta ==
    /\ bpc = "start"
    /\ \E n \in 1..MaxSubjects, T \in 1..MaxTracts, K \in 1..MaxNodes,
          M \in 1..Len(Metrics), CM \in 1..Len(Metrics),
          hasSession \in BOOLEAN, flat \in BOOLEAN,
          ramp \in BOOLEAN, c \in 0..MaxBeta, surplus \in 0..1,
          outp \in OutPaths, scale \in BOOLEAN, missing \in FileNames \cup {"nothing"} :
         /\ fs = [data |-> InputDir(n, T, K, M, hasSession, flat, missing),
                  out |-> EmptyDir]
         /\ bargs = [beta_hat |-> BetaHat(T * CM * K + surplus, ramp, c),
                     columns |-> ColumnKeys(T, CM, K),
                     workdir_in |-> "data",
                     workdir_out |-> outp,
                     scale_beta |-> scale]
    /\ io = <<>>
    /\ df_nodes = EmptyFrame
    /\ df_beta = EmptyFrame
    /\ df_subjects = EmptyFrame
    /\ bexc = "none"
    \* load_afq_data is not called
    /\ pc = "idle"
    /\ args = None
    /\ nodes_csv = EmptyFrame
    /\ nodes = EmptyFrame
    /\ sessions = None
    /\ X = <<>>
    /\ groups = <<>>
    /\ feature_names = <<>>
    /\ group_names = <<>>
    /\ subjects = <<>>
    /\ targets = EmptyFrame
    /\ y = Undefined
    /\ classes = EmptyDict
    /\ output = <<>>
    /\ exc = "none"

NextBeta ==
    \/ CheckDirs
    \/ BetaReadNodes
    \/ BuildBeta
    \/ Scale
    \/ WriteNodes
    \/ WriteSubjects
    \/ CopyStreamlines
    \/ CopyParams

\* ============================================================ specifications
\* one call of load_afq_data
SpecLoad == InitLoad /\ [][NextLoad]_vars

\* one call of output_beta_to_afq
SpecBeta == InitBeta /\ [][NextBeta]_vars

\* ================================================================== claims
\* ---- output_beta_to_afq (SpecBeta)
Called == bpc # "idle"
InDir == fs[Resolve(WorkdirIn)]
OutDir == fs[Resolve(WorkdirOut)]
SameDir ==
    /\ Called
    /\ Resolve(WorkdirIn) # "none"
    /\ Resolve(WorkdirIn) = Resolve(WorkdirOut)

\* C1: when workdir_in and workdir_out resolve to the same directory the call
\* ends with a ValueError, having read no file and written no file, and no
\* step of it changes the contents of any directory.
C1_SameDirFailsFast ==
    /\ [](SameDir =>
            /\ bpc \in {"start", "raised"}
            /\ bpc = "raised" => bexc = "ValueError"
            /\ io = <<>>)
    /\ [][SameDir => fs' = fs]_vars

\* C1 witness: the guard has refused an output path that is spelled
\* differently from the input path but names the same directory
C1_Witness ==
    /\ SameDir
    /\ bargs.workdir_in # bargs.workdir_out
    /\ bpc = "raised"
    /\ bexc = "ValueError"
    /\ WorkdirIn # WorkdirOut
    /\ InDir["nodes.csv"].exists

\* C3: a call that ends in a failure has written none of its output files:
\* it did no write, and the (initially empty) output directory holds no file.
C3_NoPartialCommit ==
    (Called /\ bpc = "raised")
        => /\ \A i \in 1..Len(io) : io[i].op # "write"
           /\ Resolve(WorkdirOut) = "out" => \A f \in FileNames : ~OutDir[f].exists

\* C8: with scale_beta, every synthetic value x of a (tract, metric) slice
\* becomes f_mean + (x - b_mean) * f_std / b_std, the factor being 1 whenever
\* b_std is zero or the ratio is undefined or infinite; no rescaled value is
\* NaN.  Stated for the slices whose two standard deviations exist (at least
\* two real rows and two synthetic rows per tract).
ClaimedFactorSq(f_var, b_var) ==
    IF f_var.nan \/ b_var.nan \/ b_var.q[1] = 0
    THEN [nan |-> FALSE, q |-> << 1, 1 >>]
    ELSE [nan |-> FALSE, q |-> Frac(f_var.q[1] * b_var.q[2], f_var.q[2] * b_var.q[1])]

C8_ScaleFactorFallback ==
    (Called /\ bpc = "write_nodes" /\ bargs.scale_beta)
        => LET before == SelectColumns(
                             WithSubject(Unstack(bargs.columns, bargs.beta_hat), "beta_hat"),
                             df_nodes.columns)
               ms == { c \in Range(df_beta.columns) : c \notin IndexColumns }
           IN \A i \in 1..Len(df_beta.rows) : \A c \in ms :
                LET t == df_beta.rows[i]["tractID"]
                    f == Slice(df_nodes, t, c)
                    b == Slice(before, t, c)
                IN (Len(f) >= 2 /\ Len(b) >= 2)
                     => /\ ~df_beta.rows[i][c].nan
                        /\ df_beta.rows[i][c] =
                             Rescaled(before.rows[i][c], Mean(f), Mean(b),
                                      ClaimedFactorSq(Variance(f), Variance(b)))

\* C9: without scale_beta, the written nodes table has the columns of the
\* input nodes table, begins with the input's rows unchanged and in order,
\* and continues with exactly one row per distinct (tract, node) of the
\* column keys, each of subject "beta_hat", whose value in metric column m is
\* the coefficient at the position of the key (tract, m, node).
C9_BetaRowsAppended ==
    (Called /\ ~bargs.scale_beta /\ Resolve(WorkdirOut) = "out"
       /\ fs["out"]["nodes.csv"].exists)
        => LET inp == InDir["nodes.csv"].body
               outp == fs["out"]["nodes.csv"].body
               nIn == Len(inp.rows)
               extra == SubSeq(outp.rows, nIn + 1, Len(outp.rows))
               keys == bargs.columns
               pairs == { << keys[j][1], keys[j][3] >> : j \in 1..Len(keys) }
           IN /\ outp.columns = inp.columns
              /\ Len(outp.rows) >= nIn
              /\ SubSeq(outp.rows, 1, nIn) = inp.rows
              /\ Len(extra) = Cardinality(pairs)
              /\ { << extra[i]["tractID"], extra[i]["nodeID"] >> : i \in 1..Len(extra) } = pairs
              /\ \A i \in 1..Len(extra) :
                   /\ extra[i]["subjectID"] = "beta_hat"
                   /\ \A j \in 1..Len(keys) :
                        ( /\ keys[j][1] = extra[i]["tractID"]
                          /\ keys[j][3] = extra[i]["nodeID"]
                          /\ keys[j][2] \in Range(outp.columns) )
                        => extra[i][keys[j][2]] = Num(bargs.beta_hat[j])

\* C9 witness: a table was written for two tracts, two metrics and two nodes
\* with eight different coefficients
C9_Witness ==
    /\ Called
    /\ ~bargs.scale_beta
    /\ fs["out"]["nodes.csv"].exists
    /\ Len(bargs.columns) = 8
    /\ Cardinality(Range(bargs.beta_hat)) = 8
    /\ Len(fs["out"]["nodes.csv"].body.columns) = 5
    /\ Len(fs["out"]["nodes.csv"].body.rows) > Len(InDir["nodes.csv"].body.rows)

\* ---- load_afq_data (SpecLoad)
Supervised == pc # "idle" /\ ~args.unsupervised
Returned == pc = "returned"

\* C2: a supervised call that returns gives a target with one row per row of
\* X and per subject, row i being the phenotype row of subjects[i]
\* (y holds the rows of the merged frame `targets`, one value per target column).
C2_TargetRowsAligned ==
    (Supervised /\ Returned)
        => /\ Len(X) = Len(subjects)
           /\ targets.index = subjects
           /\ Len(y.data) = Len(subjects) * Len(args.target_cols.v)

\* C4: when the subset check runs with label_encode_cols given and not a
\* subset of target_cols (target_cols omitted included), the call ends there
\* with a ValueError, and no column has been encoded.
NotSubset ==
    /\ args.label_encode_cols.given
    /\ \/ ~args.target_cols.given
       \/ ~(Range(args.label_encode_cols.v) \subseteq Range(args.target_cols.v))

C4_NotSubsetValueError ==
    [][(pc = "label_encode" /\ Supervised /\ NotSubset)
         => /\ pc' = "raised"
            /\ exc' = "ValueError"
            /\ y' = y
            /\ classes' = EmptyDict]_vars

\* C5: a supervised call that returns gives, for n >= 1 subjects, a y of
\* shape (n,) for one target column and (n, k) for k >= 2 target columns.
\* Stated for the calls whose merged phenotype frame has one row per subject.
C5_TargetShape ==
    (Supervised /\ Returned /\ targets.index = subjects)
        => LET n == Len(subjects)
               k == Len(args.target_cols.v)
           IN /\ k = 1 => y.shape = << n >>
              /\ k >= 2 => y.shape = << n, k >>

SessionOf(subject) ==
    LET r == CHOOSE r \in Range(nodes_csv.rows) :
                 \/ r["subjectID"] = subject
                 \/ /\ args.concat_subject_session
                    /\ ConcatSession(r["subjectID"], r["sessionID"]) = subject
    IN r["sessionID"]

\* C7: with a sessionID column and return_sessions, the returned sessions have
\* one entry per row of X, entry i being the session of subjects[i], and
\* sessionID is no feature column.
C7_SessionsPerSubject ==
    (Returned /\ args.return_sessions /\ sessions.given)
        => /\ \A j \in 1..Len(feature_names) : feature_names[j][2] # "sessionID"
           /\ Len(sessions.v) = Len(X)
           /\ Len(sessions.v) = Len(subjects)
           /\ \A i \in 1..Len(subjects) : sessions.v[i] = SessionOf(subjects[i])

\* C10: a supervised call on readable files never ends with an undefined
\* target y, whatever optional arguments are given or omitted; what it
\* returns is the 7-tuple (8 with sessions before classes).
C10_SupervisedReturnsTuple ==
    Supervised
        => /\ pc = "raised" => exc # "UnboundLocalError"
           /\ Returned =>
                /\ y.kind = "array"
                /\ output = IF args.return_sessions
                            THEN << "X", "y", "groups", "feature_names", "group_names",
                                    "subjects", "sessions", "classes" >>
                            ELSE << "X", "y", "groups", "feature_names", "group_names",
                                    "subjects", "classes" >>

====
